---- MODULE Spec2Model ----
(***************************************************************************)
(* PolicyInstance (aws/iam/policy.go) and RoleInstance (the role half of   *)
(* package iam): CRUD wrappers around the IAM service, behind the          *)
(* iamiface.IAMAPI interface.                                              *)
(*                                                                         *)
(* Strings that the code splits are modelled by their parts: a string is   *)
(* the sequence of its ":"-separated sections, and a section is the        *)
(* sequence of its "/"-separated atoms.  "arn:aws:iam::123:role/r1" is     *)
(* << <<"arn">>, <<"aws">>, <<"iam">>, <<"">>, <<"123">>, <<"role","r1">> >>*)
(* and the empty string is << <<"">> >>.                                   *)
(***************************************************************************)
EXTENDS Naturals, Sequences, FiniteSets, TLC

VARIABLES
    policy,       \* the PolicyInstance the program holds
    role,         \* the RoleInstance the program holds
    iamPolicies,  \* the account's managed policies: ARN string -> versions
    iamRoles,     \* the account's roles: role name -> role
    last,         \* the operation that ran last: its calls and what it returned
    deletes       \* history: how many Deletes have issued their calls and returned nil

vars == <<policy, role, iamPolicies, iamRoles, last, deletes>>

(* ------------------------------ bounds -------------------------------- *)

\* Highest policy version number the service hands out in a run.
MaxVersionId == 2

\* The count of successful Deletes stops growing here.
MaxDeletes == 2

(* ------------------------------ strings ------------------------------- *)

Sec(a) == <<a>>

EmptySec == <<"">>

EmptyStr == <<EmptySec>>

(* ------------------------------ errors -------------------------------- *)

NoErr == [type |-> "nil", code |-> ""]

\* awserr.Error carrying an error code
AwsErr(code) == [type |-> "awserr", code |-> code]

\* an error value that does not implement awserr.Error
PlainErr(msg) == [type |-> "error", code |-> msg]

ErrCodeNoSuchEntityException == "NoSuchEntity"

InstanceNotYetCreatedError == [type |-> "InstanceNotYetCreatedError", code |-> ""]

\* the value a goroutine unwinds with; the operation does not return
Panic(msg) == [type |-> "panic", code |-> msg]

\* errors the service (or a stand-in behind IAMAPI) may answer any call with
FaultErrors ==
    { AwsErr(ErrCodeNoSuchEntityException), AwsErr("ServiceFailure"),
      PlainErr("connection reset") }

(* ------------------------------- ARNs --------------------------------- *)

\* awsarn.ARN{}
EmptyARN ==
    [Partition |-> EmptySec, Service |-> EmptySec, Region |-> EmptySec,
     AccountID |-> EmptySec, Resource |-> <<EmptySec>>]

\* awsarn.ARN.String: "arn:" + Partition + ":" + Service + ":" + Region +
\* ":" + AccountID + ":" + Resource
ARNString(a) ==
    <<Sec("arn"), a.Partition, a.Service, a.Region, a.AccountID>> \o a.Resource

\* awsarn.Parse: the "arn:" prefix, then SplitN(arn, ":", 6)
Parse(s) ==
    IF ~(Len(s) >= 2 /\ s[1] = Sec("arn"))
    THEN [arn |-> EmptyARN, err |-> PlainErr("arn: invalid prefix")]
    ELSE IF Len(s) < 6
    THEN [arn |-> EmptyARN, err |-> PlainErr("arn: not enough sections")]
    ELSE [arn |-> [Partition |-> s[2], Service |-> s[3], Region |-> s[4],
                   AccountID |-> s[5], Resource |-> SubSeq(s, 6, Len(s))],
          err |-> NoErr]

\* aws.ARNify: Parse of every input, the first error returned
ARNify(s) ==
    LET p == Parse(s)
    IN  IF p.err # NoErr THEN [arns |-> <<>>, err |-> p.err]
        ELSE [arns |-> <<p.arn>>, err |-> NoErr]

\* FriendlyNamefromARN: the last "/"-separated part of the resource
FriendlyNamefromARN(a) ==
    LET res == a.Resource[Len(a.Resource)]
    IN  res[Len(res)]

IamARN(kind, name) ==
    [Partition |-> Sec("aws"), Service |-> Sec("iam"), Region |-> EmptySec,
     AccountID |-> Sec("123"), Resource |-> << <<kind, name>> >>]

(* ------------------------------ domains ------------------------------- *)

RoleNames == {"r1", "r2"}

PolicyNames == {"p1"}

SessionDurations == {"3600"}

\* a pointer field of a service response that is not set
NilPtr == "<nil>"

\* a role name the account holds no role under
NoRole == [absent |-> TRUE]

\* a policy ARN the account holds no policy under: no versions at all
NoPolicy == {}

\* json.Marshal(&pd): a PolicyDocument is plain data, Marshal cannot fail
Marshal(pd) == [json |-> pd, err |-> NoErr]

\* What a CreateRole / CreatePolicy answer carries in its Arn field: the ARN
\* of the entity, no Arn at all, or text that is not that ARN.
ArnShapes == {"entity", "unset", "short", "blank"}

ReturnedArn(shape, arn) ==
    CASE shape = "entity" -> ARNString(arn)
      [] shape = "unset"  -> EmptyStr
      [] shape = "short"  -> <<Sec("arn"), Sec("aws")>>
      [] shape = "blank"  -> ARNString(EmptyARN)

(* ------------------- the IAM service, behind IAMAPI -------------------- *)

\* One entry of the record of calls an operation issued, in order: the
\* method, the entity addressed, the argument, the error and the answer.
Call(api, target, arg, resp) ==
    [api |-> api, target |-> target, arg |-> arg, err |-> resp.err,
     out |-> IF resp.err = NoErr THEN resp.out ELSE NilPtr]

\* fault = [at, err]: the at-th call of the operation is answered with err
\* whatever the remote state is (at = 0: no call is).
Injected(fault, n) == IF fault.at = n THEN fault.err ELSE NoErr

Resp(err, st, out) == [err |-> err, st |-> st, out |-> out]

RoleExists(roles, rn) == rn \in DOMAIN roles /\ roles[rn] # NoRole

SvcCreateRole(roles, rn, desc, dur, doc, inj, shape) ==
    IF inj # NoErr THEN Resp(inj, roles, NilPtr)
    ELSE IF rn \notin DOMAIN roles THEN Resp(AwsErr("ValidationError"), roles, NilPtr)
    ELSE IF roles[rn] # NoRole THEN Resp(AwsErr("EntityAlreadyExists"), roles, NilPtr)
    ELSE Resp(NoErr,
              [roles EXCEPT ![rn] = [Description |-> desc,
                                     AssumeRolePolicyDocument |-> doc,
                                     MaxSessionDuration |-> dur]],
              [Arn |-> ReturnedArn(shape, IamARN("role", rn))])

SvcUpdateRole(roles, rn, desc, inj) ==
    IF inj # NoErr THEN Resp(inj, roles, NilPtr)
    ELSE IF ~RoleExists(roles, rn)
    THEN Resp(AwsErr(ErrCodeNoSuchEntityException), roles, NilPtr)
    ELSE Resp(NoErr, [roles EXCEPT ![rn].Description = desc], NilPtr)

SvcUpdateAssumeRolePolicy(roles, rn, doc, inj) ==
    IF inj # NoErr THEN Resp(inj, roles, NilPtr)
    ELSE IF ~RoleExists(roles, rn)
    THEN Resp(AwsErr(ErrCodeNoSuchEntityException), roles, NilPtr)
    ELSE Resp(NoErr, [roles EXCEPT ![rn].AssumeRolePolicyDocument = doc], NilPtr)

SvcDeleteRole(roles, rn, inj) ==
    IF inj # NoErr THEN Resp(inj, roles, NilPtr)
    ELSE IF ~RoleExists(roles, rn)
    THEN Resp(AwsErr(ErrCodeNoSuchEntityException), roles, NilPtr)
    ELSE Resp(NoErr, [roles EXCEPT ![rn] = NoRole], NilPtr)

SvcGetRole(roles, rn, inj, shape) ==
    IF inj # NoErr THEN Resp(inj, roles, NilPtr)
    ELSE IF ~RoleExists(roles, rn)
    THEN Resp(AwsErr(ErrCodeNoSuchEntityException), roles, NilPtr)
    ELSE Resp(NoErr, roles,
              [Arn |-> ReturnedArn(shape, IamARN("role", rn)),
               Description |-> roles[rn].Description,
               MaxSessionDuration |-> roles[rn].MaxSessionDuration,
               RoleName |-> rn])

PolicyExists(pols, key) == key \in DOMAIN pols /\ pols[key] # NoPolicy

Version(id, isDefault, doc) ==
    [VersionId |-> id, IsDefaultVersion |-> isDefault, Document |-> doc]

MaxOf(S) == CHOOSE m \in S : \A x \in S : x <= m

NextVersionId(versions) == MaxOf({v.VersionId : v \in versions} \cup {0}) + 1

SvcCreatePolicy(pols, name, desc, doc, inj, shape) ==
    LET key == ARNString(IamARN("policy", name))
    IN  IF inj # NoErr THEN Resp(inj, pols, NilPtr)
        ELSE IF key \notin DOMAIN pols THEN Resp(AwsErr("ValidationError"), pols, NilPtr)
        ELSE IF pols[key] # NoPolicy THEN Resp(AwsErr("EntityAlreadyExists"), pols, NilPtr)
        ELSE Resp(NoErr, [pols EXCEPT ![key] = {Version(1, TRUE, doc)}],
                  [Arn |-> ReturnedArn(shape, IamARN("policy", name))])

SvcCreatePolicyVersion(pols, key, doc, setAsDefault, inj) ==
    IF inj # NoErr THEN Resp(inj, pols, NilPtr)
    ELSE IF ~PolicyExists(pols, key)
    THEN Resp(AwsErr(ErrCodeNoSuchEntityException), pols, NilPtr)
    ELSE LET old == IF setAsDefault
                    THEN {Version(v.VersionId, FALSE, v.Document) : v \in pols[key]}
                    ELSE pols[key]
             new == Version(NextVersionId(pols[key]), setAsDefault, doc)
         IN  Resp(NoErr, [pols EXCEPT ![key] = old \cup {new}], NilPtr)

\* order: the sequence in which the answer lists the versions
SvcListPolicyVersions(pols, key, inj, order) ==
    IF inj # NoErr THEN Resp(inj, pols, NilPtr)
    ELSE IF ~PolicyExists(pols, key)
    THEN Resp(AwsErr(ErrCodeNoSuchEntityException), pols, NilPtr)
    ELSE Resp(NoErr, pols, [Versions |-> order])

SvcDeletePolicyVersion(pols, key, vid, inj) ==
    IF inj # NoErr THEN Resp(inj, pols, NilPtr)
    ELSE IF ~PolicyExists(pols, key) \/ ~(\E v \in pols[key] : v.VersionId = vid)
    THEN Resp(AwsErr(ErrCodeNoSuchEntityException), pols, NilPtr)
    ELSE IF \E v \in pols[key] : v.VersionId = vid /\ v.IsDefaultVersion
    THEN Resp(AwsErr("DeleteConflict"), pols, NilPtr)
    ELSE Resp(NoErr,
              [pols EXCEPT ![key] = {v \in pols[key] : v.VersionId # vid}], NilPtr)

SvcDeletePolicy(pols, key, inj) ==
    IF inj # NoErr THEN Resp(inj, pols, NilPtr)
    ELSE IF ~PolicyExists(pols, key)
    THEN Resp(AwsErr(ErrCodeNoSuchEntityException), pols, NilPtr)
    ELSE IF \E v \in pols[key] : ~v.IsDefaultVersion
    THEN Resp(AwsErr("DeleteConflict"), pols, NilPtr)
    ELSE Resp(NoErr, [pols EXCEPT ![key] = NoPolicy], NilPtr)

\* the orders in which a set can be listed
Orders(S) ==
    {s \in [1..Cardinality(S) -> S] : \A i, j \in 1..Cardinality(S) : i # j => s[i] # s[j]}

(* --------------------------- role functions ---------------------------- *)

\* What a helper hands back: the calls it issued, its error, the service's
\* answer and the remote state it leaves.
Ret(calls, err, out, st) == [calls |-> calls, err |-> err, out |-> out, st |-> st]

\* What a method leaves: the calls issued, the value returned (or the panic
\* it ended in), the instance and the remote state.
Done(calls, ret, inst, st) == [calls |-> calls, ret |-> ret, inst |-> inst, st |-> st]

createRole(roles, rn, roleDesc, sessionDuration, pd, fault, shape) ==
    LET b == Marshal(pd)
        r == SvcCreateRole(roles, rn, roleDesc, sessionDuration, b.json,
                           Injected(fault, 1), shape)
        c == <<Call("CreateRole", rn, roleDesc, r)>>
    IN  IF b.err # NoErr THEN Ret(<<>>, b.err, NilPtr, roles)
        ELSE IF r.err # NoErr THEN Ret(c, r.err, NilPtr, roles)
        ELSE Ret(c, NoErr, r.out, r.st)

\* updateRole with the trust policy sent first
updateRoleTrustFirst(roles, roleArn, roleDesc, pd, fault) ==
    LET rn == FriendlyNamefromARN(roleArn)
        b  == Marshal(pd)
        r1 == SvcUpdateAssumeRolePolicy(roles, rn, b.json, Injected(fault, 1))
        c1 == <<Call("UpdateAssumeRolePolicy", rn, b.json, r1)>>
        r2 == SvcUpdateRole(r1.st, rn, roleDesc, Injected(fault, 2))
        c2 == c1 \o <<Call("UpdateRole", rn, roleDesc, r2)>>
    IN  IF r1.err # NoErr THEN Ret(c1, r1.err, NilPtr, roles)
        ELSE IF r2.err # NoErr THEN Ret(c2, r2.err, NilPtr, r1.st)
        ELSE Ret(c2, NoErr, r2.out, r2.st)

updateRole(roles, roleArn, roleDesc, pd, fault) ==
    LET rn == FriendlyNamefromARN(roleArn)
        r1 == SvcUpdateRole(roles, rn, roleDesc, Injected(fault, 1))
        c1 == <<Call("UpdateRole", rn, roleDesc, r1)>>
        b  == Marshal(pd)
        r2 == SvcUpdateAssumeRolePolicy(r1.st, rn, b.json, Injected(fault, 2))
        c2 == c1 \o <<Call("UpdateAssumeRolePolicy", rn, b.json, r2)>>
    IN  IF r1.err # NoErr THEN Ret(c1, r1.err, NilPtr, roles)
        ELSE IF b.err # NoErr THEN Ret(c1, b.err, NilPtr, r1.st)
        ELSE IF r2.err # NoErr THEN Ret(c2, r2.err, NilPtr, r1.st)
        ELSE Ret(c2, NoErr, r1.out, r2.st)

\* deleteRole without the exception for no such entity
deleteRoleStrict(roles, roleArn, fault) ==
    LET rn == FriendlyNamefromARN(roleArn)
        r  == SvcDeleteRole(roles, rn, Injected(fault, 1))
        c  == <<Call("DeleteRole", rn, "", r)>>
    IN  IF r.err # NoErr THEN Ret(c, r.err, NilPtr, r.st)
        ELSE Ret(c, NoErr, r.out, r.st)

\* err.(awserr.Error).Code(): the assertion panics on an error value that is
\* no awserr.Error
deleteRole(roles, roleArn, fault) ==
    LET rn == FriendlyNamefromARN(roleArn)
        r  == SvcDeleteRole(roles, rn, Injected(fault, 1))
        c  == <<Call("DeleteRole", rn, "", r)>>
    IN  IF r.err # NoErr
        THEN IF r.err.type # "awserr"
             THEN Ret(c, Panic("interface conversion: error is not awserr.Error"),
                      NilPtr, r.st)
             ELSE IF r.err.code # ErrCodeNoSuchEntityException
             THEN Ret(c, r.err, NilPtr, r.st)
             ELSE Ret(c, NoErr, r.out, r.st)
        ELSE Ret(c, NoErr, r.out, r.st)

getRoleByName(roles, roleName, fault, shape) ==
    LET r == SvcGetRole(roles, roleName, Injected(fault, 1), shape)
        c == <<Call("GetRole", roleName, "", r)>>
    IN  IF r.err # NoErr THEN Ret(c, r.err, NilPtr, roles)
        ELSE Ret(c, NoErr, r.out, r.st)

(* ---------------------------- RoleInstance ----------------------------- *)

NewRoleInstance(name, description, sessionDuration, poldoc) ==
    [Name |-> name, Description |-> description, PolicyDocument |-> poldoc,
     MaxSessionDuration |-> sessionDuration, arn |-> EmptyARN]

NewExistingRoleInstance(name, description, sessionDuration, poldoc, arn) ==
    [Name |-> name, Description |-> description, PolicyDocument |-> poldoc,
     MaxSessionDuration |-> sessionDuration, arn |-> arn]

\* RoleInstance.ARN, PolicyInstance.ARN
ARN(inst) == inst.arn

\* the comparison against the empty string instead of the empty ARN's text
IsCreatedAgainstEmptyString(inst) == ARNString(inst.arn) # EmptyStr

\* RoleInstance.IsCreated, PolicyInstance.IsCreated
IsCreated(inst) == ARNString(inst.arn) # ARNString(EmptyARN)

RoleCreateOp(r, roles, fault, shape) ==
    LET o == createRole(roles, r.Name, r.Description, r.MaxSessionDuration,
                        r.PolicyDocument, fault, shape)
        p == Parse(o.out.Arn)
    IN  IF o.err # NoErr THEN Done(o.calls, o.err, r, o.st)
        ELSE IF p.err # NoErr THEN Done(o.calls, p.err, r, o.st)
        ELSE Done(o.calls, NoErr, [r EXCEPT !.arn = p.arn], o.st)

\* r.arn is assigned before *roleout.Role.Description is read: a role without
\* a description ends Read in a nil dereference with the ARN already stored
RoleReadOp(r, roles, fault, shape) ==
    LET o == getRoleByName(roles, r.Name, fault, shape)
        a == ARNify(o.out.Arn)
    IN  IF o.err # NoErr THEN Done(o.calls, o.err, r, o.st)
        ELSE IF a.err # NoErr THEN Done(o.calls, a.err, r, o.st)
        ELSE IF o.out.Description = NilPtr
        THEN Done(o.calls, Panic("nil pointer dereference"),
                  [r EXCEPT !.arn = a.arns[1]], o.st)
        ELSE Done(o.calls, NoErr,
                  [r EXCEPT !.arn = a.arns[1],
                            !.Description = o.out.Description,
                            !.MaxSessionDuration = o.out.MaxSessionDuration,
                            !.Name = o.out.RoleName],
                  o.st)

RoleUpdateOp(r, roles, fault) ==
    IF ~IsCreated(r) THEN Done(<<>>, InstanceNotYetCreatedError, r, roles)
    ELSE LET o == updateRole(roles, r.arn, r.Description, r.PolicyDocument, fault)
         IN  IF o.err # NoErr THEN Done(o.calls, o.err, r, o.st)
             ELSE Done(o.calls, NoErr, r, o.st)

\* Delete that forgets the ARN once the role is gone
RoleDeleteOpResets(r, roles, fault) ==
    IF ~IsCreated(r) THEN Done(<<>>, InstanceNotYetCreatedError, r, roles)
    ELSE LET o == deleteRole(roles, r.arn, fault)
         IN  IF o.err # NoErr THEN Done(o.calls, o.err, r, o.st)
             ELSE Done(o.calls, NoErr, [r EXCEPT !.arn = EmptyARN], o.st)

RoleDeleteOp(r, roles, fault) ==
    IF ~IsCreated(r) THEN Done(<<>>, InstanceNotYetCreatedError, r, roles)
    ELSE LET o == deleteRole(roles, r.arn, fault)
         IN  IF o.err # NoErr THEN Done(o.calls, o.err, r, o.st)
             ELSE Done(o.calls, NoErr, r, o.st)

(* -------------------------- policy functions --------------------------- *)

createPolicy(pols, polName, polDesc, pd, fault, shape) ==
    LET b == Marshal(pd)
        r == SvcCreatePolicy(pols, polName, polDesc, b.json, Injected(fault, 1), shape)
        c == <<Call("CreatePolicy", polName, b.json, r)>>
    IN  IF b.err # NoErr THEN Ret(<<>>, b.err, NilPtr, pols)
        ELSE IF r.err # NoErr THEN Ret(c, r.err, NilPtr, pols)
        ELSE Ret(c, NoErr, r.out, r.st)

updatePolicy(pols, policyArn, pd, fault) ==
    LET b == Marshal(pd)
        r == SvcCreatePolicyVersion(pols, ARNString(policyArn), b.json, TRUE,
                                    Injected(fault, 1))
        c == <<Call("CreatePolicyVersion", ARNString(policyArn), b.json, r)>>
    IN  IF b.err # NoErr THEN Ret(<<>>, b.err, NilPtr, pols)
        ELSE IF r.err # NoErr THEN Ret(c, r.err, NilPtr, pols)
        ELSE Ret(c, NoErr, r.out, r.st)

\* the loop with the error of DeletePolicyVersion dropped
RECURSIVE deleteVersionsKeepGoing(_, _, _, _, _, _)
deleteVersionsKeepGoing(pols, key, versions, i, calls, fault) ==
    IF i > Len(versions) THEN Ret(calls, NoErr, NilPtr, pols)
    ELSE IF ~versions[i].IsDefaultVersion
    THEN LET r == SvcDeletePolicyVersion(pols, key, versions[i].VersionId,
                                         Injected(fault, Len(calls) + 1))
             c == calls \o <<Call("DeletePolicyVersion", key,
                                  versions[i].VersionId, r)>>
         IN  deleteVersionsKeepGoing(r.st, key, versions, i + 1, c, fault)
    ELSE deleteVersionsKeepGoing(pols, key, versions, i + 1, calls, fault)

\* for _, version := range listPolicyOut.Versions, from the i-th on: every
\* version that is not the default one is deleted, the first error ends it
RECURSIVE deleteVersions(_, _, _, _, _, _)
deleteVersions(pols, key, versions, i, calls, fault) ==
    IF i > Len(versions) THEN Ret(calls, NoErr, NilPtr, pols)
    ELSE IF ~versions[i].IsDefaultVersion
    THEN LET r == SvcDeletePolicyVersion(pols, key, versions[i].VersionId,
                                         Injected(fault, Len(calls) + 1))
             c == calls \o <<Call("DeletePolicyVersion", key,
                                  versions[i].VersionId, r)>>
         IN  IF r.err # NoErr THEN Ret(c, r.err, NilPtr, r.st)
             ELSE deleteVersions(r.st, key, versions, i + 1, c, fault)
    ELSE deleteVersions(pols, key, versions, i + 1, calls, fault)

deletePolicy(pols, arn, fault, order) ==
    LET key == ARNString(arn)
        l   == SvcListPolicyVersions(pols, key, Injected(fault, 1), order)
        c1  == <<Call("ListPolicyVersions", key, "", l)>>
        v   == deleteVersions(l.st, key, l.out.Versions, 1, c1, fault)
        r   == SvcDeletePolicy(v.st, key, Injected(fault, Len(v.calls) + 1))
        c   == v.calls \o <<Call("DeletePolicy", key, "", r)>>
    IN  IF l.err # NoErr THEN Ret(c1, l.err, NilPtr, pols)
        ELSE IF v.err # NoErr THEN Ret(v.calls, v.err, NilPtr, v.st)
        ELSE IF r.err # NoErr
        THEN IF r.err.type # "awserr"
             THEN Ret(c, Panic("interface conversion: error is not awserr.Error"),
                      NilPtr, r.st)
             ELSE IF r.err.code # ErrCodeNoSuchEntityException
             THEN Ret(c, r.err, NilPtr, r.st)
             ELSE Ret(c, NoErr, r.out, r.st)
        ELSE Ret(c, NoErr, r.out, r.st)

(* --------------------------- PolicyInstance ---------------------------- *)

NewPolicyInstance(name, description, policyDoc) ==
    [Name |-> name, Description |-> description, PolicyDocument |-> policyDoc,
     arn |-> EmptyARN]

NewExistingPolicyInstance(name, description, policyDoc, arn) ==
    [Name |-> name, Description |-> description, PolicyDocument |-> policyDoc,
     arn |-> arn]

PolicyCreateOp(p, pols, fault, shape) ==
    LET o == createPolicy(pols, p.Name, p.Description, p.PolicyDocument, fault, shape)
        a == Parse(o.out.Arn)
    IN  IF o.err # NoErr THEN Done(o.calls, o.err, p, o.st)
        ELSE IF a.err # NoErr THEN Done(o.calls, a.err, p, o.st)
        ELSE Done(o.calls, NoErr, [p EXCEPT !.arn = a.arn], o.st)

\* panic("Implement me")
PolicyReadOp(p, pols) == Done(<<>>, Panic("Implement me"), p, pols)

PolicyUpdateOp(p, pols, fault) ==
    IF ~IsCreated(p) THEN Done(<<>>, InstanceNotYetCreatedError, p, pols)
    ELSE LET o == updatePolicy(pols, p.arn, p.PolicyDocument, fault)
         IN  IF o.err # NoErr THEN Done(o.calls, o.err, p, o.st)
             ELSE Done(o.calls, NoErr, p, o.st)

PolicyDeleteOp(p, pols, fault, order) ==
    IF ~IsCreated(p) THEN Done(<<>>, InstanceNotYetCreatedError, p, pols)
    ELSE LET o == deletePolicy(pols, p.arn, fault, order)
         IN  IF o.err # NoErr THEN Done(o.calls, o.err, p, o.st)
             ELSE Done(o.calls, NoErr, p, o.st)

(* ------------------------------- state --------------------------------- *)

\* the most calls one operation issues: the listing, one deletion per
\* non-default version, the deletion of the policy
MaxCalls == MaxVersionId + 1

NoFault == [at |-> 0, err |-> NoErr]

\* the faults of an operation that issues at most n calls
Faults(n) == {NoFault} \cup {[at |-> k, err |-> e] : k \in 1..n, e \in FaultErrors}

PolicyKeys == {ARNString(IamARN("policy", n)) : n \in PolicyNames}

\* the orders in which ListPolicyVersions may list the versions of key
ListOrders(pols, key) ==
    IF PolicyExists(pols, key) THEN Orders(pols[key]) ELSE {<<>>}

\* the version sets a policy of the account starts with: versions 1..n, the
\* last one the default
InitVersions(n, docs) ==
    {Version(i, i = n, docs[i]) : i \in 1..n}

Outcome(op, o) == [op |-> op, ret |-> o.ret, calls |-> o.calls]

\* the variable of the kind of instance the program did not construct
Unbuilt == [unbuilt |-> TRUE]

Built(op) == [op |-> op, ret |-> NoErr, calls |-> <<>>]

\* the states of the account's policies a run starts from
InitPolicies ==
    [PolicyKeys ->
       {NoPolicy} \cup {InitVersions(n, [i \in 1..n |-> "pd1"]) : n \in 1..MaxVersionId}]

\* the states of the account's roles a run starts from
InitRoles ==
    [RoleNames ->
       {NoRole} \cup
       {[Description |-> d, AssumeRolePolicyDocument |-> "pd1",
         MaxSessionDuration |-> s] :
            d \in {"d1", NilPtr}, s \in SessionDurations}]

InitPolicy ==
    /\ \/ /\ policy \in {NewPolicyInstance(n, "d1", "pd2") : n \in PolicyNames}
          /\ last = Built("NewPolicyInstance")
       \/ /\ policy \in
               {NewExistingPolicyInstance(n, "d1", "pd2", IamARN("policy", n)) :
                    n \in PolicyNames}
          /\ last = Built("NewExistingPolicyInstance")
    /\ iamPolicies \in InitPolicies
    /\ role = Unbuilt
    /\ iamRoles = [n \in RoleNames |-> NoRole]

InitRole ==
    /\ \/ /\ role \in {NewRoleInstance("r1", "d2", s, "pd2") : s \in SessionDurations}
          /\ last = Built("NewRoleInstance")
       \/ /\ role \in
               {NewExistingRoleInstance("r1", "d2", s, "pd2", IamARN("role", a)) :
                    s \in SessionDurations, a \in RoleNames}
          /\ last = Built("NewExistingRoleInstance")
    /\ iamRoles \in InitRoles
    /\ policy = Unbuilt
    /\ iamPolicies = [k \in PolicyKeys |-> NoPolicy]

\* The program constructs a PolicyInstance or a RoleInstance, new or for an
\* existing ARN, against an account that may hold the entity already.
Init ==
    /\ InitPolicy \/ InitRole
    /\ deletes = 0

\* the history count after an operation: a Delete that issued its calls and
\* returned nil adds one
Counted(op, o) ==
    IF op \in {"PolicyDelete", "RoleDelete"} /\ o.ret = NoErr /\ o.calls # <<>>
       /\ deletes < MaxDeletes
    THEN deletes + 1
    ELSE deletes

\* a panic unwinds the program: nothing runs after it
Running == last.ret.type # "panic"

\* what a Create is answered with: a fault, or an answer carrying some Arn
CreateInputs ==
    {<<f, "entity">> : f \in Faults(1)} \cup {<<NoFault, sh>> : sh \in ArnShapes}

PolicyCreate ==
    /\ Running
    /\ policy # Unbuilt
    /\ \E in \in CreateInputs :
         LET o == PolicyCreateOp(policy, iamPolicies, in[1], in[2])
         IN  /\ policy' = o.inst
             /\ iamPolicies' = o.st
             /\ last' = Outcome("PolicyCreate", o)
             /\ deletes' = Counted("PolicyCreate", o)
    /\ UNCHANGED <<role, iamRoles>>

PolicyRead ==
    /\ Running
    /\ policy # Unbuilt
    /\ LET o == PolicyReadOp(policy, iamPolicies)
       IN  /\ policy' = o.inst
           /\ iamPolicies' = o.st
           /\ last' = Outcome("PolicyRead", o)
           /\ deletes' = Counted("PolicyRead", o)
    /\ UNCHANGED <<role, iamRoles>>

PolicyUpdate ==
    /\ Running
    /\ policy # Unbuilt
    /\ PolicyExists(iamPolicies, ARNString(policy.arn))
         => NextVersionId(iamPolicies[ARNString(policy.arn)]) <= MaxVersionId
    /\ \E fault \in Faults(1) :
         LET o == PolicyUpdateOp(policy, iamPolicies, fault)
         IN  /\ policy' = o.inst
             /\ iamPolicies' = o.st
             /\ last' = Outcome("PolicyUpdate", o)
             /\ deletes' = Counted("PolicyUpdate", o)
    /\ UNCHANGED <<role, iamRoles>>

PolicyDelete ==
    /\ Running
    /\ policy # Unbuilt
    /\ \E fault \in Faults(MaxCalls), order \in ListOrders(iamPolicies, ARNString(policy.arn)) :
         LET o == PolicyDeleteOp(policy, iamPolicies, fault, order)
         IN  /\ policy' = o.inst
             /\ iamPolicies' = o.st
             /\ last' = Outcome("PolicyDelete", o)
             /\ deletes' = Counted("PolicyDelete", o)
    /\ UNCHANGED <<role, iamRoles>>

RoleCreate ==
    /\ Running
    /\ role # Unbuilt
    /\ \E in \in CreateInputs :
         LET o == RoleCreateOp(role, iamRoles, in[1], in[2])
         IN  /\ role' = o.inst
             /\ iamRoles' = o.st
             /\ last' = Outcome("RoleCreate", o)
             /\ deletes' = Counted("RoleCreate", o)
    /\ UNCHANGED <<policy, iamPolicies>>

RoleRead ==
    /\ Running
    /\ role # Unbuilt
    /\ \E in \in CreateInputs :
         LET o == RoleReadOp(role, iamRoles, in[1], in[2])
         IN  /\ role' = o.inst
             /\ iamRoles' = o.st
             /\ last' = Outcome("RoleRead", o)
             /\ deletes' = Counted("RoleRead", o)
    /\ UNCHANGED <<policy, iamPolicies>>

RoleUpdate ==
    /\ Running
    /\ role # Unbuilt
    /\ \E fault \in Faults(2) :
         LET o == RoleUpdateOp(role, iamRoles, fault)
         IN  /\ role' = o.inst
             /\ iamRoles' = o.st
             /\ last' = Outcome("RoleUpdate", o)
             /\ deletes' = Counted("RoleUpdate", o)
    /\ UNCHANGED <<policy, iamPolicies>>

RoleDelete ==
    /\ Running
    /\ role # Unbuilt
    /\ \E fault \in Faults(1) :
         LET o == RoleDeleteOp(role, iamRoles, fault)
         IN  /\ role' = o.inst
             /\ iamRoles' = o.st
             /\ last' = Outcome("RoleDelete", o)
             /\ deletes' = Counted("RoleDelete", o)
    /\ UNCHANGED <<policy, iamPolicies>>

Next ==
    \/ PolicyCreate
    \/ PolicyRead
    \/ PolicyUpdate
    \/ PolicyDelete
    \/ RoleCreate
    \/ RoleRead
    \/ RoleUpdate
    \/ RoleDelete

Spec == Init /\ [][Next]_vars

(* ------------------------------ claims --------------------------------- *)

PolicyOps == {"PolicyCreate", "PolicyRead", "PolicyUpdate", "PolicyDelete"}

RoleOps == {"RoleCreate", "RoleRead", "RoleUpdate", "RoleDelete"}

\* the final call of a Delete: the one the exception for no such entity is on
FinalDeleteApis == {"DeleteRole", "DeletePolicy"}

NoSuchEntity == AwsErr(ErrCodeNoSuchEntityException)

Range(seq) == {seq[i] : i \in DOMAIN seq}

\* C1: Update or Delete on a PolicyInstance or RoleInstance whose ARN is
\* empty returns the instance-not-yet-created error, issues no call to the
\* service, and leaves the instance and the account as they were.
C1_NotYetCreatedGuard ==
    [][ /\ (last'.op \in {"PolicyUpdate", "PolicyDelete"} /\ ARN(policy) = EmptyARN)
           => /\ last'.ret = InstanceNotYetCreatedError
              /\ last'.calls = <<>>
              /\ UNCHANGED <<policy, role, iamPolicies, iamRoles>>
        /\ (last'.op \in {"RoleUpdate", "RoleDelete"} /\ ARN(role) = EmptyARN)
           => /\ last'.ret = InstanceNotYetCreatedError
              /\ last'.calls = <<>>
              /\ UNCHANGED <<policy, role, iamPolicies, iamRoles>>
      ]_vars

C1_Witness ==
    /\ last.op = "PolicyDelete"
    /\ ARN(policy) = EmptyARN
    /\ PolicyExists(iamPolicies, ARNString(IamARN("policy", policy.Name)))
    /\ last.ret = InstanceNotYetCreatedError
    /\ last.calls = <<>>

\* C2: in a Delete of a created PolicyInstance, DeletePolicy is issued only
\* after ListPolicyVersions succeeded and DeletePolicyVersion succeeded for
\* every listed version that is not the default one; DeletePolicyVersion is
\* issued for no default version; and when the listing or a
\* DeletePolicyVersion fails, DeletePolicy is not issued and Delete returns
\* that error.
C2_VersionsStrippedBeforeDelete ==
    (last.op = "PolicyDelete" /\ IsCreated(policy)) =>
        LET cs == last.calls
            n == Len(cs)
            listed == IF cs[1].err = NoErr THEN Range(cs[1].out.Versions) ELSE {}
        IN  /\ n >= 1
            /\ cs[1].api = "ListPolicyVersions"
            /\ \A i \in 1..n :
                 cs[i].api = "DeletePolicy" =>
                   /\ cs[1].err = NoErr
                   /\ \A v \in listed :
                        ~v.IsDefaultVersion =>
                          \E j \in 1..(i - 1) :
                             /\ cs[j].api = "DeletePolicyVersion"
                             /\ cs[j].arg = v.VersionId
                             /\ cs[j].err = NoErr
            /\ \A j \in 1..n :
                 cs[j].api = "DeletePolicyVersion" =>
                   \E v \in listed : v.VersionId = cs[j].arg /\ ~v.IsDefaultVersion
            /\ \A i \in 1..n :
                 (cs[i].api \in {"ListPolicyVersions", "DeletePolicyVersion"}
                    /\ cs[i].err # NoErr) =>
                   /\ \A k \in 1..n : cs[k].api # "DeletePolicy"
                   /\ last.ret = cs[i].err

C2_Witness ==
    /\ last.op = "PolicyDelete"
    /\ last.ret = NoErr
    /\ Len(last.calls) >= 3
    /\ last.calls[2].api = "DeletePolicyVersion"
    /\ last.calls[2].err = NoErr
    /\ last.calls[Len(last.calls)].api = "DeletePolicy"
    /\ last.calls[Len(last.calls)].err = NoErr
    /\ \E v \in Range(last.calls[1].out.Versions) : v.IsDefaultVersion

\* C3: when the DeleteRole call of RoleInstance.Delete or the DeletePolicy
\* call of PolicyInstance.Delete fails with the no-such-entity code, Delete
\* returns nil; when it fails with another IAM error code, Delete returns
\* that error.
C3_NoSuchEntityIgnoredOnFinalDelete ==
    (last.op \in {"PolicyDelete", "RoleDelete"} /\ last.calls # <<>>) =>
        LET c == last.calls[Len(last.calls)]
        IN  (c.api \in FinalDeleteApis /\ c.err.type = "awserr") =>
              /\ c.err.code = ErrCodeNoSuchEntityException => last.ret = NoErr
              /\ c.err.code # ErrCodeNoSuchEntityException => last.ret = c.err

C3_Witness ==
    /\ last.op = "RoleDelete"
    /\ last.calls # <<>>
    /\ last.calls[1].api = "DeleteRole"
    /\ last.calls[1].err = NoSuchEntity
    /\ last.ret = NoErr

\* C4: a Delete of a created PolicyInstance whose policy the account no
\* longer holds, every call on its ARN answered no such entity, returns nil.
C4_DeleteOfMissingPolicyReturnsNil ==
    ( /\ last.op = "PolicyDelete"
      /\ IsCreated(policy)
      /\ ~PolicyExists(iamPolicies, ARNString(policy.arn))
      /\ \A i \in DOMAIN last.calls : last.calls[i].err = NoSuchEntity )
    => last.ret = NoErr

\* C5: in Create, Update and Delete of both types, a service call that fails
\* (with any error value, the ignored no-such-entity of the final delete call
\* apart) is the last call issued, and the operation returns that very
\* error: it does not abort.
C5_ErrorsReturnedUnchanged ==
    (last.op \in (PolicyOps \cup RoleOps) \ {"PolicyRead", "RoleRead"}) =>
        \A i \in DOMAIN last.calls :
            LET c == last.calls[i]
            IN  (c.err # NoErr /\ ~(c.api \in FinalDeleteApis /\ c.err = NoSuchEntity))
                  => /\ i = Len(last.calls)
                     /\ last.ret = c.err

\* C6: an instance built by NewPolicyInstance or NewRoleInstance has the
\* empty ARN and is not created; a Create that returns nil stores the ARN the
\* service returned and makes IsCreated true; a Create that returns an error
\* leaves the ARN as it was.
C6_IsCreatedReflectsARN ==
    [][ /\ last.op = "NewPolicyInstance"
           => (ARN(policy) = EmptyARN /\ ~IsCreated(policy))
        /\ last.op = "NewRoleInstance"
           => (ARN(role) = EmptyARN /\ ~IsCreated(role))
        /\ (last'.op = "PolicyCreate" /\ last'.ret = NoErr)
           => /\ ARNString(ARN(policy')) = last'.calls[1].out.Arn
              /\ IsCreated(policy')
        /\ (last'.op = "RoleCreate" /\ last'.ret = NoErr)
           => /\ ARNString(ARN(role')) = last'.calls[1].out.Arn
              /\ IsCreated(role')
        /\ (last'.op = "PolicyCreate" /\ last'.ret # NoErr)
           => ARN(policy') = ARN(policy)
        /\ (last'.op = "RoleCreate" /\ last'.ret # NoErr)
           => ARN(role') = ARN(role)
      ]_vars

\* C7: Read of a PolicyInstance or a RoleInstance, in any state, ends by
\* returning nil or an error (that of its get call, or of parsing the ARN in
\* the answer); it never aborts.
C7_ReadReturns ==
    (last.op \in {"PolicyRead", "RoleRead"}) =>
        /\ last.ret.type # "panic"
        /\ \/ last.ret = NoErr
           \/ \E i \in DOMAIN last.calls : last.ret = last.calls[i].err
           \/ \E i \in DOMAIN last.calls :
                 /\ last.calls[i].err = NoErr
                 /\ last.ret = Parse(last.calls[i].out.Arn).err

\* C8: Create on a RoleInstance that is already created, its role held by the
\* account, updates that role and returns nil; it issues no second CreateRole.
C8_CreateUpdatesExistingRole ==
    [][ ( /\ last'.op = "RoleCreate"
          /\ IsCreated(role)
          /\ FriendlyNamefromARN(ARN(role)) = role.Name
          /\ RoleExists(iamRoles, role.Name)
          /\ \A i \in DOMAIN last'.calls :
               last'.calls[i].err \in {NoErr, AwsErr("EntityAlreadyExists")} )
        => /\ last'.ret = NoErr
           /\ \A i \in DOMAIN last'.calls : last'.calls[i].api # "CreateRole"
      ]_vars

\* C9: Update of a created RoleInstance issues UpdateRole (the description)
\* and then UpdateAssumeRolePolicy (the trust policy), both for the friendly
\* name of the stored ARN; when UpdateRole fails nothing else is issued and
\* the account's roles are unchanged; when UpdateAssumeRolePolicy fails
\* Update returns that error with the description already changed.
C9_UpdateOrderAndPartialEffect ==
    [][ (last'.op = "RoleUpdate" /\ IsCreated(role)) =>
          LET cs == last'.calls
              fn == FriendlyNamefromARN(ARN(role))
          IN  /\ Len(cs) \in {1, 2}
              /\ cs[1].api = "UpdateRole"
              /\ cs[1].target = fn
              /\ cs[1].arg = role.Description
              /\ role' = role
              /\ IF cs[1].err # NoErr
                 THEN /\ Len(cs) = 1
                      /\ last'.ret = cs[1].err
                      /\ iamRoles' = iamRoles
                 ELSE /\ Len(cs) = 2
                      /\ cs[2].api = "UpdateAssumeRolePolicy"
                      /\ cs[2].target = fn
                      /\ cs[2].arg = role.PolicyDocument
                      /\ IF cs[2].err # NoErr
                         THEN /\ last'.ret = cs[2].err
                              /\ iamRoles' =
                                   [iamRoles EXCEPT ![fn].Description = role.Description]
                         ELSE /\ last'.ret = NoErr
                              /\ iamRoles' =
                                   [iamRoles EXCEPT
                                      ![fn].Description = role.Description,
                                      ![fn].AssumeRolePolicyDocument = role.PolicyDocument]
      ]_vars

C9_Witness ==
    /\ last.op = "RoleUpdate"
    /\ Len(last.calls) = 2
    /\ last.calls[1].err = NoErr
    /\ last.calls[2].err # NoErr
    /\ last.ret = last.calls[2].err
    /\ last.calls[1].target # role.Name
    /\ iamRoles[last.calls[1].target].Description = role.Description
    /\ iamRoles[last.calls[1].target].AssumeRolePolicyDocument # role.PolicyDocument

====
